---- MODULE Spec2Model ----
(***************************************************************************)
(* Prepaid time-balance ledger of the MindBot backend.                     *)
(*                                                                         *)
(* Two implementations of the ledger are modelled, each on its own store:  *)
(*   impl = "sqlite"    DatabaseManager and the Stripe webhook of          *)
(*                      backend/time-service/time_server.py (SQLite file)  *)
(*   impl = "supabase"  SupabaseClient of                                  *)
(*                      backend/production-agent/supabase_client.py        *)
(* A behaviour runs one of them from start to end (impl never changes).    *)
(*                                                                         *)
(* Callers.  The methods open a connection (or issue requests) per call    *)
(* and keep nothing in memory between calls, so the store is the only      *)
(* shared state.  The callers of the model are operating-system processes  *)
(* or threads that share the store: the agent workers and the webhook      *)
(* service on the Supabase project, several server workers on the SQLite   *)
(* file.  Inside one event loop a method runs without yielding, which is   *)
(* the schedule in which every call runs to its return.                    *)
(*                                                                         *)
(* Granularity.  A SQL statement / one PostgREST request is atomic.  A     *)
(* method that issues several of them is a call with a program counter:    *)
(* <method>_step is what its next statement does.  With SQLite a write     *)
(* transaction holds the database write lock from its first UPDATE to its  *)
(* commit, so the UPDATEs of one method and its commit are one statement   *)
(* of the model; the SELECT that precedes them runs outside of any         *)
(* transaction and is a statement of its own.                              *)
(*                                                                         *)
(* Scheduling.  In one step of the model a caller either executes one      *)
(* statement of its call and is suspended (the call is kept in             *)
(* `suspended`), or runs the call to its return.  At most MaxSuspended     *)
(* calls are suspended at a time; statements and whole calls of other      *)
(* callers run in between.                                                 *)
(***************************************************************************)
EXTENDS Integers, Sequences, FiniteSets, TLC

\* ---------------------------------------------------------------- bounds
MaxCards == 2          \* rows of time_cards
MaxSessions == 2       \* rows of time_sessions / voice_sessions
MaxRows == 3           \* rows of the two tables together
MaxTicks == 1          \* advances of the clock
MaxSuspended == 1      \* calls suspended between two of their statements
MaxSteps == 30         \* longest session of the billing runs, in steps of 5 s

\* ------------------------------------------------------ program constants
ExpiryDays == 365      \* timedelta(days=365)
MinimumBilling == 1    \* max(1, ...)
SecondsPerMinute == 60 \* duration_seconds / 60

\* ------------------------------------------------------------ input sets
Users == {1, 2}                 \* user ids
SessionIds == {"s1"}            \* caller-supplied session ids
Codes == {"AAAA", "BBBB"}       \* activation codes the generator may draw
\* rows of pricing_tiers: (hours, bonus_minutes)
PricingTiers == {[hours |-> 0, bonus_minutes |-> 2]}
DeductMinutes == {2, 3}
Durations == {125}
TickDays == {1, ExpiryDays + 1} \* amounts the clock advances by

NULL == 0 - 1                   \* SQL NULL in a timestamp / integer column

VARIABLES impl, now, ticks, time_cards, time_sessions, payment_history, suspended

vars == <<impl, now, ticks, time_cards, time_sessions, payment_history, suspended>>

\* ---------------------------------------------------------------- helpers
RECURSIVE SumOver(_, _)
SumOver(S, f) == IF S = {} THEN 0
                 ELSE LET x == CHOOSE y \in S : TRUE
                      IN f[x] + SumOver(S \ {x}, f)

Min(S) == CHOOSE x \in S : \A y \in S : x <= y

Max(a, b) == IF a >= b THEN a ELSE b

CardIds == 1..Len(time_cards)

\* the store has room for one more row
RoomForRow == Len(time_cards) + Len(time_sessions) < MaxRows

\* tier.hours * 60 + tier.bonus_minutes
TierMinutes(t) == (t.hours * 60) + t.bonus_minutes

\* expires_at IS NULL OR expires_at > datetime('now')
Unexpired(c, t) == c.expires_at = NULL \/ c.expires_at > t

Init ==
    /\ impl \in {"sqlite", "supabase"}
    /\ now = 0
    /\ ticks = 0
    /\ time_cards = <<>>
    /\ time_sessions = <<>>
    /\ payment_history = {}
    /\ suspended = <<>>

\* The wall clock advances.
Tick ==
    /\ ticks < MaxTicks
    /\ \E d \in TickDays : now' = now + d
    /\ ticks' = ticks + 1
    /\ UNCHANGED <<impl, time_cards, time_sessions, payment_history, suspended>>

\* ------------------------------------------------------------ selections
\* A faulty variant of the selection below, used to see that the property of
\* pending cards depends on it: the status of the card is not looked at.
AnyStatusIds(tbl, u, t) ==
    {i \in 1..Len(tbl) : /\ tbl[i].user_id = u
                         /\ tbl[i].remaining_minutes > 0
                         /\ Unexpired(tbl[i], t)}

\* WHERE user_id = ? AND status = 'active' AND remaining_minutes > 0
\*   AND (expires_at IS NULL OR expires_at > datetime('now'))
EligibleIds(tbl, u, t) ==
    {i \in 1..Len(tbl) : /\ tbl[i].user_id = u
                         /\ tbl[i].status = "active"
                         /\ tbl[i].remaining_minutes > 0
                         /\ Unexpired(tbl[i], t)}

\* SQLite sorts NULL before every value in ORDER BY ... ASC.
NullsFirstLess(a, b) == \/ a = NULL /\ b # NULL
                        \/ a # NULL /\ b # NULL /\ a < b

\* A faulty variant of the order below, used to see that the property of the
\* consumption order depends on it: the card that expires last comes first.
LatestFirst(a, b) == NullsFirstLess(b.expires_at, a.expires_at)

\* ORDER BY expires_at ASC, created_at ASC
SqliteBefore(a, b) ==
    \/ NullsFirstLess(a.expires_at, b.expires_at)
    \/ a.expires_at = b.expires_at /\ NullsFirstLess(a.created_at, b.created_at)

\* .order('expires_at'): ascending, and PostgreSQL sorts NULL last
NullsLastLess(a, b) == \/ a # NULL /\ b = NULL
                       \/ a # NULL /\ b # NULL /\ a < b

PgBefore(a, b) == NullsLastLess(a.expires_at, b.expires_at)

\* the sort order of the store the rows are selected from
Before(im, a, b) == IF im = "sqlite" THEN SqliteBefore(a, b) ELSE PgBefore(a, b)

\* The row sequences an ORDER BY may return for the rows S of tbl: every
\* arrangement without an inversion of the sort key (rows that tie on the
\* key come in an order SQL leaves open).  Each element is <<id, minutes>>.
OrderedRows(im, tbl, S) ==
    {[k \in 1..Cardinality(S) |-> <<f[k], tbl[f[k]].remaining_minutes>>] :
       f \in {g \in [1..Cardinality(S) -> S] :
                /\ \A i, j \in 1..Cardinality(S) : i # j => g[i] # g[j]
                /\ \A i, j \in 1..Cardinality(S) :
                      i < j => ~Before(im, tbl[g[j]], tbl[g[i]])}}

\* ------------------------------------------------- the deduction walk
\* Faulty variants of the two expressions below, used to see that the
\* properties of the walk depend on them: the covering branch taken for
\* every card, and a balance that is written back unchanged.
CardAlwaysCovers(card_minutes, remaining_to_deduct) == TRUE

KeepBalance(card_minutes, remaining_to_deduct) == card_minutes

\* new_balance = card_minutes - remaining_to_deduct
NewBalance(card_minutes, remaining_to_deduct) == card_minutes - remaining_to_deduct

\* if card_minutes >= remaining_to_deduct
CardCovers(card_minutes, remaining_to_deduct) == card_minutes >= remaining_to_deduct

\* One iteration of the loop of deduct_time on the selected row: the UPDATE
\* it issues on the table and the new remaining_to_deduct.
DeductOne(tbl, row, left) ==
    LET card_id == row[1]
        card_minutes == row[2]
    IN IF CardCovers(card_minutes, left)
       THEN [tbl |-> [tbl EXCEPT
                        ![card_id].remaining_minutes = NewBalance(card_minutes, left),
                        ![card_id].status =
                            IF NewBalance(card_minutes, left) = 0 THEN "used" ELSE "active"],
             left |-> 0]
       ELSE [tbl |-> [tbl EXCEPT ![card_id].remaining_minutes = 0,
                                 ![card_id].status = "used"],
             left |-> left - card_minutes]

\* for card_id, card_minutes in cards: if remaining_to_deduct <= 0: break ...
RECURSIVE DeductWalk(_, _, _)
DeductWalk(tbl, rows, left) ==
    IF rows = <<>> \/ left <= 0
    THEN [tbl |-> tbl, left |-> left]
    ELSE LET r == DeductOne(tbl, Head(rows), left)
         IN DeductWalk(r.tbl, Tail(rows), r.left)

\* A faulty variant of the rounding below, used to see that the property of
\* the billed minutes depends on it: the quotient truncated.
Truncate(n, d) == n \div d

\* cost_minutes = max(1, round(duration_seconds / 60)); round() of Python 3
\* rounds a half to the even neighbour.
PyRound(n, d) ==
    LET q == n \div d
        r == n % d
    IN IF 2 * r < d THEN q
       ELSE IF 2 * r > d THEN q + 1
       ELSE IF q % 2 = 0 THEN q ELSE q + 1

CostMinutes(duration_seconds) ==
    Max(MinimumBilling, PyRound(duration_seconds, SecondsPerMinute))


\* ------------------------------------------------------------- the tables
\* a pending row with remaining_minutes = total_minutes, expiring ExpiryDays
\* after its creation
NewCard(u, code, total_minutes, pi, t) ==
    [user_id |-> u, activation_code |-> code, total_minutes |-> total_minutes,
     remaining_minutes |-> total_minutes, activated_at |-> NULL,
     expires_at |-> t + ExpiryDays, created_at |-> t, status |-> "pending",
     stripe_payment_intent_id |-> pi]

\* UPDATE time_cards SET user_id = ?, activated_at = ?, status = 'active'
\*   WHERE activation_code = ?
ActivateUpdate(tbl, code, u, t) ==
    [i \in 1..Len(tbl) |->
        IF tbl[i].activation_code = code
        THEN [tbl[i] EXCEPT !.user_id = u, !.activated_at = t, !.status = "active"]
        ELSE tbl[i]]

\* UPDATE time_cards SET status = 'active', activated_at = now
\*   WHERE stripe_payment_intent_id = ?
ActivateByPayment(tbl, pi, t) ==
    [i \in 1..Len(tbl) |->
        IF tbl[i].stripe_payment_intent_id = pi
        THEN [tbl[i] EXCEPT !.status = "active", !.activated_at = t]
        ELSE tbl[i]]

\* WHERE user_id = ? AND status = 'active'
\*   AND (expires_at IS NULL OR expires_at > datetime('now'))
BalanceIds(tbl, u, t) ==
    {i \in 1..Len(tbl) : /\ tbl[i].user_id = u
                         /\ tbl[i].status = "active"
                         /\ Unexpired(tbl[i], t)}

\* MIN(expires_at): NULL values are skipped, NULL when nothing is left
MinExpiration(tbl, S) ==
    LET E == {tbl[i].expires_at : i \in S} \ {NULL}
    IN IF E = {} THEN NULL ELSE Min(E)

\* SUM(remaining_minutes), COUNT(*), MIN(expires_at) over the rows S
BalanceOf(tbl, S) ==
    [total_minutes |-> SumOver(S, [i \in S |-> tbl[i].remaining_minutes]),
     active_cards |-> Cardinality(S),
     next_expiration |-> MinExpiration(tbl, S)]

\* INSERT INTO time_sessions (...) VALUES (?, ?, ?, 'active')
NewSession(u, sid) ==
    [user_id |-> u, session_id |-> sid, end_time |-> NULL,
     duration_seconds |-> NULL, cost_minutes |-> NULL, status |-> "active"]

\* SELECT ... WHERE session_id = ? AND status = 'active'
ActiveRows(tbl, sid) ==
    {i \in 1..Len(tbl) : tbl[i].session_id = sid /\ tbl[i].status = "active"}

\* UPDATE ... SET end_time, duration_seconds, cost_minutes, status
\*   WHERE session_id = ?
SealSessions(tbl, sid, t, duration_seconds, cost_minutes, st) ==
    [i \in 1..Len(tbl) |->
        IF tbl[i].session_id = sid
        THEN [tbl[i] EXCEPT !.end_time = t, !.duration_seconds = duration_seconds,
                            !.cost_minutes = cost_minutes, !.status = st]
        ELSE tbl[i]]

\* .eq('user_id', ..).eq('status', 'active').gt('remaining_minutes', 0)
SbEligibleIds(tbl, u) ==
    {i \in 1..Len(tbl) : /\ tbl[i].user_id = u
                         /\ tbl[i].status = "active"
                         /\ tbl[i].remaining_minutes > 0}

\* ------------------------------------------------------------------ calls
\* A call of a multi-statement method: its arguments, its program counter
\* and its local variables (cards: the rows its SELECT returned, left:
\* remaining_to_deduct, ok: once pc = "done", the call returned a value
\* other than None / False and raised nothing).
NewCall(op, u, arg, code, sid, dur) ==
    [op |-> op, pc |-> "select", user |-> u, arg |-> arg, code |-> code,
     sid |-> sid, dur |-> dur, cards |-> <<>>, left |-> arg, ok |-> FALSE]

ActivateCall(code, u) == NewCall("activate", u, 0, code, "", 0)

DeductCall(u, minutes) == NewCall("deduct", u, minutes, "", "", 0)

\* cost_minutes is computed before the first statement
EndCall(sid, duration_seconds) ==
    NewCall("end", 0, CostMinutes(duration_seconds), "", sid, duration_seconds)

\* the store and the call after a statement of the call
Outcome(c, tc, ts) == [call |-> c, cards |-> tc, sessions |-> ts]

Return(c, ok) == [c EXCEPT !.pc = "done", !.ok = ok, !.cards = <<>>, !.left = 0]

\* ============================================================ DatabaseManager
\* A faulty variant of the method below, used to see that the property of
\* failed activations depends on its SELECT: the UPDATE is issued unchecked.
activate_unchecked_step(c, tc, ts, t) ==
    {Outcome(Return(c, TRUE), ActivateUpdate(tc, c.code, c.user, t), ts)}

\* activate_time_card(activation_code, user_id):
\*   select: SELECT id FROM time_cards WHERE activation_code = ? AND
\*           status = 'pending'; "if not card_data: return None"
\*   update: the UPDATE, conn.commit(), return the card
activate_time_card_step(c, tc, ts, t) ==
    IF c.pc = "select"
    THEN IF \E i \in 1..Len(tc) : /\ tc[i].activation_code = c.code
                                  /\ tc[i].status = "pending"
         THEN {Outcome([c EXCEPT !.pc = "update"], tc, ts)}
         ELSE {Outcome(Return(c, FALSE), tc, ts)}
    ELSE {Outcome(Return(c, TRUE), ActivateUpdate(tc, c.code, c.user, t), ts)}

\* deduct_time(user_id, minutes):
\*   select: the rows of the eligible cards in ORDER BY order
\*   commit: the UPDATEs of the loop and conn.commit(), one write transaction
\*           computed from the rows the SELECT returned;
\*           return remaining_to_deduct == 0
deduct_time_step(c, tc, ts, t) ==
    IF c.pc = "select"
    THEN {Outcome([c EXCEPT !.pc = "commit", !.cards = rows], tc, ts) :
            rows \in OrderedRows("sqlite", tc, EligibleIds(tc, c.user, t))}
    ELSE LET r == DeductWalk(tc, c.cards, c.left)
         IN {Outcome(Return(c, r.left = 0), r.tbl, ts)}

\* end_time_session(session_id, duration_seconds):
\*   select: SELECT * FROM time_sessions WHERE session_id = ? AND
\*           status = 'active'; "if not session_row: return None"
\*   commit: from the UPDATE of the session to conn.commit().  The UPDATE
\*           opens a write transaction on the method's connection;
\*           deduct_time then runs on a connection of its own.  Its SELECT
\*           succeeds; with no eligible card it returns False and the session
\*           is committed as 'error'.  With an eligible card its first UPDATE
\*           needs the write lock the outer connection holds: sqlite3 raises
\*           OperationalError (database is locked) after the busy timeout,
\*           both connections roll back and the exception propagates.
end_time_session_step(c, tc, ts, t) ==
    IF c.pc = "select"
    THEN IF ActiveRows(ts, c.sid) = {}
         THEN {Outcome(Return(c, FALSE), tc, ts)}
         ELSE {Outcome([c EXCEPT !.pc = "commit",
                                 !.user = ts[Min(ActiveRows(ts, c.sid))].user_id],
                       tc, ts)}
    ELSE IF EligibleIds(tc, c.user, t) = {}
         THEN {Outcome(Return(c, TRUE), tc,
                       SealSessions(ts, c.sid, t, c.dur, c.arg, "error"))}
         ELSE {Outcome(Return(c, FALSE), tc, ts)}

\* ============================================================ SupabaseClient
\* deduct_time(user_id, minutes), also as called by end_voice_session:
\*   select (deduct_select inside end_voice_session): the select request;
\*           "if not response.data: return False"
\*   walk:   one iteration of the loop, one update request on the next
\*           selected card; after the last one return remaining_to_deduct == 0
SbReturn(c, ok) ==
    IF c.op = "end"
    THEN [c EXCEPT !.pc = "end_update", !.ok = ok, !.cards = <<>>, !.left = 0]
    ELSE Return(c, ok)

sb_deduct_time_step(c, tc, ts, t) ==
    IF c.pc \in {"select", "deduct_select"}
    THEN {IF rows = <<>> THEN Outcome(SbReturn(c, FALSE), tc, ts)
          ELSE Outcome([c EXCEPT !.pc = "walk", !.cards = rows, !.left = c.arg], tc, ts) :
            rows \in OrderedRows("supabase", tc, SbEligibleIds(tc, c.user))}
    ELSE LET r == DeductOne(tc, Head(c.cards), c.left)
         IN IF r.left <= 0 \/ Tail(c.cards) = <<>>
            THEN {Outcome(SbReturn(c, r.left = 0), r.tbl, ts)}
            ELSE {Outcome([c EXCEPT !.cards = Tail(c.cards), !.left = r.left], r.tbl, ts)}

\* end_voice_session(session_id, duration_seconds):
\*   select:     the select of the active session; "return False" without one
\*   (deduct_select, walk: deduct_time(user_id, cost_minutes))
\*   end_update: the update of the session record; return time_deducted
sb_end_voice_session_step(c, tc, ts, t) ==
    IF c.pc = "select"
    THEN IF ActiveRows(ts, c.sid) = {}
         THEN {Outcome(Return(c, FALSE), tc, ts)}
         ELSE {Outcome([c EXCEPT !.pc = "deduct_select",
                                 !.user = ts[Min(ActiveRows(ts, c.sid))].user_id],
                       tc, ts)}
    ELSE IF c.pc = "end_update"
    THEN {Outcome(Return(c, c.ok), tc,
                  SealSessions(ts, c.sid, t, c.dur, c.arg,
                               IF c.ok THEN "completed" ELSE "error"))}
    ELSE sb_deduct_time_step(c, tc, ts, t)

\* ------------------------------------------------------------- scheduling
\* the next statement of call c of implementation im
Step(im, c, tc, ts, t) ==
    IF im = "sqlite"
    THEN IF c.op = "activate" THEN activate_time_card_step(c, tc, ts, t)
         ELSE IF c.op = "deduct" THEN deduct_time_step(c, tc, ts, t)
         ELSE end_time_session_step(c, tc, ts, t)
    ELSE IF c.op = "deduct" THEN sb_deduct_time_step(c, tc, ts, t)
         ELSE sb_end_voice_session_step(c, tc, ts, t)

\* the call run from outcome o to its return, no other caller in between
RECURSIVE Run(_, _, _)
Run(im, o, t) ==
    IF o.call.pc = "done" THEN {o}
    ELSE UNION {Run(im, o2, t) : o2 \in Step(im, o.call, o.cards, o.sessions, t)}

\* one turn of the caller of c: one statement, or all that are left
Turn(im, c, tc, ts, t) ==
    LET S == Step(im, c, tc, ts, t)
    IN S \cup UNION {Run(im, o, t) : o \in S}

\* a caller invokes a method
Invoke(c) ==
    /\ \E o \in Turn(impl, c, time_cards, time_sessions, now) :
         /\ time_cards' = o.cards
         /\ time_sessions' = o.sessions
         /\ IF o.call.pc = "done"
            THEN suspended' = suspended
            ELSE /\ Len(suspended) < MaxSuspended
                 /\ suspended' = Append(suspended, o.call)
    /\ UNCHANGED <<impl, now, ticks, payment_history>>

RemoveAt(s, i) == [k \in 1..(Len(s) - 1) |-> IF k < i THEN s[k] ELSE s[k + 1]]

\* a suspended call continues
Resume ==
    \E i \in 1..Len(suspended) :
      /\ \E o \in Turn(impl, suspended[i], time_cards, time_sessions, now) :
           /\ time_cards' = o.cards
           /\ time_sessions' = o.sessions
           /\ suspended' = IF o.call.pc = "done" THEN RemoveAt(suspended, i)
                           ELSE [suspended EXCEPT ![i] = o.call]
      /\ UNCHANGED <<impl, now, ticks, payment_history>>

\* ------------------------------------------------- DatabaseManager, actions
\* A faulty variant of the test below, used to see that the uniqueness of
\* the codes depends on it: no code is ever found taken.
CodeNeverTaken(tbl, code) == FALSE

\* SELECT id FROM time_cards WHERE activation_code = ? finds a row; the same
\* test is made again by the UNIQUE constraint of the column when the row is
\* inserted, so a code drawn twice by concurrent calls is inserted once (the
\* second INSERT raises IntegrityError and adds nothing).
CodeTaken(tbl, code) == \E i \in 1..Len(tbl) : tbl[i].activation_code = code

\* generate_activation_code + create_time_card: a code no row carries yet
create_time_card(u, total_minutes) ==
    /\ impl = "sqlite"
    /\ Len(time_cards) < MaxCards
    /\ RoomForRow
    /\ \E code \in Codes :
         /\ ~CodeTaken(time_cards, code)
         /\ time_cards' = Append(time_cards,
                                 NewCard(u, code, total_minutes, Len(time_cards) + 1, now))
    /\ UNCHANGED <<impl, now, ticks, time_sessions, payment_history, suspended>>

activate_time_card(code, u) ==
    /\ impl = "sqlite"
    /\ Invoke(ActivateCall(code, u))

\* get_user_balance(user_id): a read; its return value
UserBalance(tbl, u, t) == BalanceOf(tbl, BalanceIds(tbl, u, t))

get_user_balance(u) ==
    /\ impl = "sqlite"
    /\ UserBalance(time_cards, u, now).total_minutes >= 0
    /\ UNCHANGED vars

deduct_time(u, minutes) ==
    /\ impl = "sqlite"
    /\ Invoke(DeductCall(u, minutes))

start_time_session(u, sid) ==
    /\ impl = "sqlite"
    /\ Len(time_sessions) < MaxSessions
    /\ RoomForRow
    /\ time_sessions' = Append(time_sessions, NewSession(u, sid))
    /\ UNCHANGED <<impl, now, ticks, time_cards, payment_history, suspended>>

end_time_session(sid, duration_seconds) ==
    /\ impl = "sqlite"
    /\ Invoke(EndCall(sid, duration_seconds))

\* stripe_webhook on payment_intent.succeeded: the UPDATE of the card and the
\* INSERT INTO payment_history in one transaction.  stripe_payment_intent_id
\* is UNIQUE in payment_history: a second event for the same intent raises
\* IntegrityError and the transaction (the UPDATE included) is rolled back.
stripe_webhook(pi) ==
    /\ impl = "sqlite"
    /\ pi \in CardIds
    /\ IF pi \in payment_history
       THEN UNCHANGED <<time_cards, payment_history>>
       ELSE /\ time_cards' = ActivateByPayment(time_cards, pi, now)
            /\ payment_history' = payment_history \cup {pi}
    /\ UNCHANGED <<impl, now, ticks, time_sessions, suspended>>

\* -------------------------------------------------- SupabaseClient, actions
\* The method draws a code and inserts the row without looking for the code
\* in the table.  The definition of the Supabase table is not part of the
\* sources; activation_code is taken to be unique in it, as the ledger's
\* contract describes the column, so that an insert with a code that is
\* taken is rejected.
SbCodeTaken(tbl, code) == \E i \in 1..Len(tbl) : tbl[i].activation_code = code

sb_create_time_card(u, tier) ==
    /\ impl = "supabase"
    /\ Len(time_cards) < MaxCards
    /\ RoomForRow
    /\ \E code \in Codes :
         /\ ~SbCodeTaken(time_cards, code)
         /\ time_cards' = Append(time_cards,
                                 NewCard(u, code, TierMinutes(tier), Len(time_cards) + 1, now))
    /\ UNCHANGED <<impl, now, ticks, time_sessions, payment_history, suspended>>

\* activate_time_card(stripe_payment_intent_id), called by the
\* payment-succeeded webhook handlers
sb_activate_time_card(pi) ==
    /\ impl = "supabase"
    /\ pi \in CardIds
    /\ time_cards' = ActivateByPayment(time_cards, pi, now)
    /\ UNCHANGED <<impl, now, ticks, time_sessions, payment_history, suspended>>

\* get_user_time_balance(user_id): a read; its return value
SbUserBalance(tbl, u) == BalanceOf(tbl, SbEligibleIds(tbl, u))

sb_get_user_time_balance(u) ==
    /\ impl = "supabase"
    /\ SbUserBalance(time_cards, u).total_minutes >= 0
    /\ UNCHANGED vars

sb_deduct_time(u, minutes) ==
    /\ impl = "supabase"
    /\ Invoke(DeductCall(u, minutes))

sb_start_voice_session(u, sid) ==
    /\ impl = "supabase"
    /\ Len(time_sessions) < MaxSessions
    /\ RoomForRow
    /\ time_sessions' = Append(time_sessions, NewSession(u, sid))
    /\ UNCHANGED <<impl, now, ticks, time_cards, payment_history, suspended>>

sb_end_voice_session(sid, duration_seconds) ==
    /\ impl = "supabase"
    /\ Invoke(EndCall(sid, duration_seconds))

\* ==================================================================== Next
Next ==
    \/ Tick
    \/ Resume
    \/ \E u \in Users, t \in PricingTiers : create_time_card(u, TierMinutes(t))
    \/ \E c \in Codes, u \in Users : activate_time_card(c, u)
    \/ \E u \in Users : get_user_balance(u)
    \/ \E u \in Users, m \in DeductMinutes : deduct_time(u, m)
    \/ \E u \in Users, sid \in SessionIds : start_time_session(u, sid)
    \/ \E sid \in SessionIds, d \in Durations : end_time_session(sid, d)
    \/ \E pi \in 1..MaxCards : stripe_webhook(pi)
    \/ \E u \in Users, t \in PricingTiers : sb_create_time_card(u, t)
    \/ \E pi \in 1..MaxCards : sb_activate_time_card(pi)
    \/ \E u \in Users : sb_get_user_time_balance(u)
    \/ \E u \in Users, m \in DeductMinutes : sb_deduct_time(u, m)
    \/ \E u \in Users, sid \in SessionIds : sb_start_voice_session(u, sid)
    \/ \E sid \in SessionIds, d \in Durations : sb_end_voice_session(sid, d)

Spec == Init /\ [][Next]_vars

\* =============================================================== properties
\* what the ledger's contract calls an eligible card of owner u at time t:
\* status active, remaining_minutes > 0, not expired
Expired(c, t) == c.expires_at # NULL /\ c.expires_at < t

ContractEligible(tbl, u, t) ==
    {i \in 1..Len(tbl) : /\ tbl[i].user_id = u
                         /\ tbl[i].status = "active"
                         /\ tbl[i].remaining_minutes > 0
                         /\ ~Expired(tbl[i], t)}

Remaining(tbl, S) == SumOver(S, [i \in S |-> tbl[i].remaining_minutes])

\* the minutes left on all the cards of owner u
OwnerTotal(tbl, u) == Remaining(tbl, {i \in 1..Len(tbl) : tbl[i].user_id = u})

\* a call of deduct by owner u for m minutes, run from the current state to
\* its return with no other caller in between
DeductRuns(u, m) ==
    Run(impl, Outcome(DeductCall(u, m), time_cards, time_sessions), now)

\* every schedule of the statements of two calls c1 and c2 made concurrently
\* from the store (tc, ts): the two returned calls and the store they leave
RECURSIVE Interleave(_, _, _, _, _, _)
Interleave(im, c1, c2, tc, ts, t) ==
    IF c1.pc = "done" /\ c2.pc = "done"
    THEN {[first |-> c1, second |-> c2, cards |-> tc, sessions |-> ts]}
    ELSE (IF c1.pc = "done" THEN {}
          ELSE UNION {Interleave(im, o.call, c2, o.cards, o.sessions, t) :
                        o \in Step(im, c1, tc, ts, t)})
         \cup
         (IF c2.pc = "done" THEN {}
          ELSE UNION {Interleave(im, c1, o.call, o.cards, o.sessions, t) :
                        o \in Step(im, c2, tc, ts, t)})

\* C1: deduct is all-or-nothing.  In every reachable state, for every owner
\* and every amount larger than the sum of remaining_minutes over the owner's
\* eligible cards, a deduct call returns false and leaves remaining_minutes
\* and status of every card as they were.
C1_AllOrNothing ==
    \A u \in Users, m \in DeductMinutes :
      Remaining(time_cards, ContractEligible(time_cards, u, now)) < m =>
        \A o \in DeductRuns(u, m) :
          /\ ~o.call.ok
          /\ \A i \in CardIds :
               /\ o.cards[i].remaining_minutes = time_cards[i].remaining_minutes
               /\ o.cards[i].status = time_cards[i].status

\* C2: in every reachable state, whatever the sequence and interleaving of
\* calls that led to it, every card has 0 <= remaining_minutes <= total_minutes.
C2_RemainingWithinBounds ==
    \A i \in CardIds :
      /\ 0 <= time_cards[i].remaining_minutes
      /\ time_cards[i].remaining_minutes <= time_cards[i].total_minutes

\* a card drained by deductions while a call of another caller is suspended
\* between its SELECT and its UPDATEs
C2_Witness ==
    /\ suspended # <<>>
    /\ \E i \in CardIds : /\ time_cards[i].remaining_minutes = 0
                          /\ time_cards[i].status = "used"
                          /\ time_cards[i].total_minutes > 0

\* C3: two concurrent deduct calls of one owner never both succeed on the
\* same minutes.  In every reachable state, for every owner, every two
\* amounts and every schedule of the two calls: if both calls return true,
\* the owner's remaining minutes have decreased by the sum of the two amounts.
C3_NoDoubleSpend ==
    \A u \in Users, m1 \in DeductMinutes, m2 \in DeductMinutes :
      \A r \in Interleave(impl, DeductCall(u, m1), DeductCall(u, m2),
                          time_cards, time_sessions, now) :
        (r.first.ok /\ r.second.ok) =>
          OwnerTotal(time_cards, u) - OwnerTotal(r.cards, u) = m1 + m2

\* C4: ending a session twice.  In every reachable state, for every active
\* session whose owner's eligible minutes cover the cost, and every schedule
\* of two end calls for it (one after the other, or overlapping): exactly one
\* of the two calls succeeds and the owner's remaining minutes have decreased
\* by the cost of that call, once.
C4_EndTwiceDeductsOnce ==
    \A k \in 1..Len(time_sessions), d1 \in Durations, d2 \in Durations :
      LET sid == time_sessions[k].session_id
          u == time_sessions[k].user_id
      IN (/\ time_sessions[k].status = "active"
          /\ Remaining(time_cards, ContractEligible(time_cards, u, now))
               >= Max(CostMinutes(d1), CostMinutes(d2)))
         => \A r \in Interleave(impl, EndCall(sid, d1), EndCall(sid, d2),
                                time_cards, time_sessions, now) :
              /\ r.first.ok # r.second.ok
              /\ OwnerTotal(time_cards, u) - OwnerTotal(r.cards, u)
                   = IF r.first.ok THEN r.first.arg ELSE r.second.arg

\* C5: activation is single-use.  In every reachable state of the SQLite
\* store, for every pending card and every schedule of two activate calls
\* with its code by two different callers: exactly one call succeeds and the
\* card is bound to the caller whose call succeeded.
C5_SingleActivation ==
    impl = "sqlite" =>
      \A i \in CardIds, u1 \in Users, u2 \in Users :
        (time_cards[i].status = "pending" /\ u1 # u2) =>
          \A r \in Interleave(impl, ActivateCall(time_cards[i].activation_code, u1),
                              ActivateCall(time_cards[i].activation_code, u2),
                              time_cards, time_sessions, now) :
            /\ r.first.ok # r.second.ok
            /\ r.cards[i].user_id = IF r.first.ok THEN u1 ELSE u2

\* card a is consumed before card b: ascending expires_at, then ascending
\* created_at
ConsumedBefore(a, b) ==
    \/ a.expires_at < b.expires_at
    \/ a.expires_at = b.expires_at /\ a.created_at < b.created_at

BalanceRows(im, tbl, u, t) ==
    IF im = "sqlite" THEN BalanceIds(tbl, u, t) ELSE SbEligibleIds(tbl, u)

\* C7: expiry exclusion.  In every reachable state, a card whose expires_at
\* is earlier than now is not among the rows the balance of its owner is
\* computed from, and no deduct call changes it.
C7_ExpiryExclusion ==
    \A i \in CardIds :
      Expired(time_cards[i], now) =>
        /\ \A u \in Users : i \notin BalanceRows(impl, time_cards, u, now)
        /\ \A u \in Users, m \in DeductMinutes :
             \A o \in DeductRuns(u, m) : o.cards[i] = time_cards[i]

\* ------------------------------------------------------ billing of sessions
\* The cost of a session is a function of its duration alone.  SpecBilling
\* ends one open session with every duration of 0, 5, 10, ... seconds up to
\* 5 * MaxSteps (halves of a minute are among them: 30, 90, 150), in both
\* implementations, for an owner without a card and for an owner with one
\* card that was created and activated at time 0.
BillingDurations == {5 * k : k \in 0..MaxSteps}

InitBilling ==
    /\ impl \in {"sqlite", "supabase"}
    /\ now = 0
    /\ ticks = 0
    /\ \E code \in Codes, t \in PricingTiers :
         time_cards \in {<<>>,
                         ActivateByPayment(<<NewCard(Min(Users), code, TierMinutes(t), 1, 0)>>, 1, 0)}
    /\ \E sid \in SessionIds : time_sessions = <<NewSession(Min(Users), sid)>>
    /\ payment_history = {}
    /\ suspended = <<>>

NextBilling ==
    \/ Resume
    \/ \E sid \in SessionIds, d \in BillingDurations : end_time_session(sid, d)
    \/ \E sid \in SessionIds, d \in BillingDurations : sb_end_voice_session(sid, d)

SpecBilling == InitBilling /\ [][NextBilling]_vars

\* cost is the number of whole minutes nearest to seconds (either neighbour
\* when seconds lies halfway), and at least the minimum
NearestMinuteOrMinimum(seconds, cost) ==
    \E r \in 0..(seconds + 1) :
      /\ 2 * r * SecondsPerMinute - 2 * seconds <= SecondsPerMinute
      /\ 2 * seconds - 2 * r * SecondsPerMinute <= SecondsPerMinute
      /\ cost = IF r >= MinimumBilling THEN r ELSE MinimumBilling

\* C8: for every duration_seconds >= 0 the cost an end call bills, and
\* records on the session, is max(minimum billing, duration_seconds / 60
\* rounded to the nearest minute); it is never 0; 10 seconds bill 1 minute
\* and 125 seconds bill 2 minutes.
C8_CostMinutes ==
    /\ \A k \in 1..Len(suspended) :
         suspended[k].op = "end" =>
           /\ NearestMinuteOrMinimum(suspended[k].dur, suspended[k].arg)
           /\ suspended[k].arg >= 1
           /\ suspended[k].dur = 10 => suspended[k].arg = 1
           /\ suspended[k].dur = 125 => suspended[k].arg = 2
    /\ \A k \in 1..Len(time_sessions) :
         time_sessions[k].status # "active" =>
           /\ NearestMinuteOrMinimum(time_sessions[k].duration_seconds,
                                     time_sessions[k].cost_minutes)
           /\ time_sessions[k].cost_minutes >= 1
           /\ time_sessions[k].duration_seconds = 10 => time_sessions[k].cost_minutes = 1
           /\ time_sessions[k].duration_seconds = 125 => time_sessions[k].cost_minutes = 2

\* a session of 10 seconds sealed with the minimum of 1 minute
C8_Witness ==
    \E k \in 1..Len(time_sessions) :
      /\ time_sessions[k].status # "active"
      /\ time_sessions[k].duration_seconds = 10
      /\ time_sessions[k].cost_minutes = 1

\* the balance the implementation reports to owner u
ReportedBalance(im, tbl, u, t) == BalanceOf(tbl, BalanceRows(im, tbl, u, t))

\* card i is the only card of its owner and is as create followed by
\* activate leaves it: active, unexpired, nothing consumed
FreshOnlyCard(i) ==
    /\ time_cards[i].status = "active"
    /\ time_cards[i].activated_at # NULL
    /\ time_cards[i].remaining_minutes = time_cards[i].total_minutes
    /\ time_cards[i].total_minutes > 0
    /\ Unexpired(time_cards[i], now) /\ ~Expired(time_cards[i], now)
    /\ \A j \in CardIds : j # i => time_cards[j].user_id # time_cards[i].user_id

\* C9: round trip.  In every reachable state where an owner's only card has
\* just been created with T minutes and activated, the reported balance is
\* total_minutes = T with active_cards = 1; a deduct of T by the owner then
\* succeeds, leaves the card at status used, and the balance reported after
\* it has total_minutes = 0.
C9_RoundTrip ==
    \A i \in CardIds :
      FreshOnlyCard(i) =>
        LET u == time_cards[i].user_id
            T == time_cards[i].total_minutes
        IN /\ ReportedBalance(impl, time_cards, u, now).total_minutes = T
           /\ ReportedBalance(impl, time_cards, u, now).active_cards = 1
           /\ \A o \in DeductRuns(u, T) :
                /\ o.call.ok
                /\ o.cards[i].status = "used"
                /\ ReportedBalance(impl, o.cards, u, now).total_minutes = 0

\* the owner's only card, used up by a deduct of all its minutes
C9_Witness ==
    \E i \in CardIds :
      /\ time_cards[i].status = "used"
      /\ time_cards[i].remaining_minutes = 0
      /\ time_cards[i].total_minutes \in DeductMinutes
      /\ time_cards[i].activated_at # NULL
      /\ \A j \in CardIds : j # i => time_cards[j].user_id # time_cards[i].user_id
      /\ ReportedBalance(impl, time_cards, time_cards[i].user_id, now).total_minutes = 0

\* C10: status transitions are one-directional.  In every step of every
\* behaviour, a card whose status is used or expired keeps that status.
C10_TerminalStatus ==
    [][\A i \in CardIds :
         time_cards[i].status \in {"used", "expired"} =>
           time_cards'[i].status = time_cards[i].status]_vars

\* C11: remaining_minutes of a card never increases.  In every step of every
\* behaviour, every card that exists before the step has afterwards at most
\* the remaining_minutes it had before.
C11_RemainingNeverIncreases ==
    [][\A i \in CardIds :
         time_cards'[i].remaining_minutes <= time_cards[i].remaining_minutes]_vars

\* C12: a purchased card is spendable only after the payment is confirmed.
\* In every reachable state of the SQLite service, a card for whose payment
\* intent no payment_intent.succeeded event has been handled is pending, is
\* not among the rows the balance is computed from, and has lost no minute.
C12_PendingUntilPaid ==
    impl = "sqlite" =>
      \A i \in CardIds :
        time_cards[i].stripe_payment_intent_id \notin payment_history =>
          /\ time_cards[i].status = "pending"
          /\ \A u \in Users : i \notin BalanceRows(impl, time_cards, u, now)
          /\ time_cards[i].remaining_minutes = time_cards[i].total_minutes

\* an end call for session sid with duration d, run from the current state
\* to its return with no other caller in between
EndRuns(sid, d) ==
    Run(impl, Outcome(EndCall(sid, d), time_cards, time_sessions), now)

\* the minutes owner u can spend
Available(u) == Remaining(time_cards, ContractEligible(time_cards, u, now))

\* C13: end with a sufficient balance.  In every reachable state, for every
\* active session whose owner can spend at least the cost of the duration,
\* an end call leaves the session completed with duration_seconds and
\* cost_minutes recorded, and the owner's remaining minutes lower by exactly
\* the cost.
C13_EndCompletes ==
    \A k \in 1..Len(time_sessions), d \in Durations :
      LET u == time_sessions[k].user_id
          cost == CostMinutes(d)
      IN (time_sessions[k].status = "active" /\ Available(u) >= cost) =>
           \A o \in EndRuns(time_sessions[k].session_id, d) :
             /\ o.sessions[k].status = "completed"
             /\ o.sessions[k].duration_seconds = d
             /\ o.sessions[k].cost_minutes = cost
             /\ OwnerTotal(time_cards, u) - OwnerTotal(o.cards, u) = cost

\* C14: end with an insufficient balance.  In every reachable state, for
\* every active session whose owner can spend less than the cost of the
\* duration, an end call leaves the session with status error and its
\* cost_minutes recorded, and leaves every card of the owner as it was.
C14_EndInsufficient ==
    \A k \in 1..Len(time_sessions), d \in Durations :
      LET u == time_sessions[k].user_id
      IN (time_sessions[k].status = "active" /\ Available(u) < CostMinutes(d)) =>
           \A o \in EndRuns(time_sessions[k].session_id, d) :
             /\ o.sessions[k].status = "error"
             /\ o.sessions[k].cost_minutes = CostMinutes(d)
             /\ \A i \in CardIds : time_cards[i].user_id = u => o.cards[i] = time_cards[i]

\* C15: start fails for a session_id that already has an active session.
\* In every reachable state of the SQLite service, no two rows of
\* time_sessions with the same session_id are both active.
C15_OneActivePerSessionId ==
    impl = "sqlite" =>
      \A j, k \in 1..Len(time_sessions) :
        (/\ j # k
         /\ time_sessions[j].session_id = time_sessions[k].session_id
         /\ time_sessions[j].status = "active")
        => time_sessions[k].status # "active"

\* C16: activated_at is set exactly once.  In every step of every behaviour,
\* a card that has been activated (activated_at is not NULL) keeps its
\* activated_at and its owner.
C16_ActivatedOnce ==
    [][\A i \in CardIds :
         time_cards[i].activated_at # NULL =>
           /\ time_cards'[i].activated_at = time_cards[i].activated_at
           /\ time_cards'[i].user_id = time_cards[i].user_id]_vars

\* C17: activation binds the owner only if the card has none.  Every card is
\* created with an owner; in every step of every behaviour a pending card
\* keeps the owner it has.
C17_OwnerKept ==
    [][\A i \in CardIds :
         time_cards[i].status = "pending" =>
           time_cards'[i].user_id = time_cards[i].user_id]_vars

\* the calls made for owner u in the current state: fresh deduct and
\* activate calls of u, end calls for the sessions of u, and the suspended
\* calls that act for u
CallsFor(u) ==
    {DeductCall(u, m) : m \in DeductMinutes}
    \cup (IF impl = "sqlite" THEN {ActivateCall(code, u) : code \in Codes} ELSE {})
    \cup {EndCall(sid, d) : sid \in {x \in SessionIds :
                                       /\ ActiveRows(time_sessions, x) # {}
                                       /\ time_sessions[Min(ActiveRows(time_sessions, x))].user_id = u},
                            d \in Durations}
    \cup {suspended[k] : k \in {j \in 1..Len(suspended) : suspended[j].user = u}}

\* C18: operations of different owners are independent.  In every reachable
\* state, whatever calls are in progress, no statement of a call made for an
\* owner changes remaining_minutes or status of a card that belongs to
\* another owner.
C18_OwnersIndependent ==
    \A u \in Users :
      \A c \in CallsFor(u) :
        \A o \in Turn(impl, c, time_cards, time_sessions, now) :
          \A i \in CardIds :
            time_cards[i].user_id # u =>
              /\ o.cards[i].remaining_minutes = time_cards[i].remaining_minutes
              /\ o.cards[i].status = time_cards[i].status

\* C19: getBalance is a pure read of the committed store.  In every
\* reachable state, the total_minutes reported to an owner is the sum of
\* remaining_minutes over exactly the owner's cards that are active and
\* whose expires_at is later than now.  (The read itself is a step that
\* leaves every variable unchanged.)
C19_BalanceIsSum ==
    \A u \in Users :
      ReportedBalance(impl, time_cards, u, now).total_minutes
        = Remaining(time_cards,
                    {i \in CardIds : /\ time_cards[i].user_id = u
                                     /\ time_cards[i].status = "active"
                                     /\ time_cards[i].expires_at > now})

\* C20: a covered deduct.  In every reachable state, for every owner and
\* every amount that the owner's eligible cards cover, a deduct call returns
\* true, lowers the sum of remaining_minutes over those cards by exactly the
\* amount, leaves every one of them that reaches 0 with status used, and
\* leaves unchanged every card it takes nothing from.
C20_CoveredDeduct ==
    \A u \in Users, m \in DeductMinutes :
      LET E == ContractEligible(time_cards, u, now)
      IN Remaining(time_cards, E) >= m =>
           \A o \in DeductRuns(u, m) :
             /\ o.call.ok
             /\ Remaining(time_cards, E) - Remaining(o.cards, E) = m
             /\ \A i \in E : o.cards[i].remaining_minutes = 0 => o.cards[i].status = "used"
             /\ \A i \in CardIds :
                  (i \notin E \/ o.cards[i].remaining_minutes = time_cards[i].remaining_minutes)
                  => o.cards[i] = time_cards[i]

\* the minutes consumed from the cards of owner u
Consumed(tbl, u) ==
    LET S == {i \in 1..Len(tbl) : tbl[i].user_id = u}
    IN SumOver(S, [i \in S |-> tbl[i].total_minutes - tbl[i].remaining_minutes])

\* the minutes billed to owner u by completed sessions
CompletedCost(tbl, u) ==
    LET S == {k \in 1..Len(tbl) : tbl[k].user_id = u /\ tbl[k].status = "completed"}
    IN SumOver(S, [k \in S |-> tbl[k].cost_minutes])

\* C21: ledger conservation.  Minutes leave the cards only through end
\* calls, so the ledger balances if every end call keeps it balanced: in
\* every reachable state, for every end call on an active session and every
\* owner, the call adds to the minutes consumed from the owner's cards
\* exactly what it adds to the cost_minutes of the owner's completed
\* sessions; a session left with status error or active adds nothing.
C21_LedgerConservation ==
    \A sid \in SessionIds, d \in Durations :
      ActiveRows(time_sessions, sid) # {} =>
        \A o \in EndRuns(sid, d) :
          \A u \in Users :
            Consumed(o.cards, u) - Consumed(time_cards, u)
              = CompletedCost(o.sessions, u) - CompletedCost(time_sessions, u)

\* the active session an end call for sid selects
SelectedSession(sid) == Min(ActiveRows(time_sessions, sid))

\* C22: end always seals.  In every reachable state, for every active
\* session and every duration, an end call returns and leaves the session
\* sealed: status completed or error, end_time set.
C22_EndSeals ==
    \A sid \in SessionIds, d \in Durations :
      ActiveRows(time_sessions, sid) # {} =>
        \A o \in EndRuns(sid, d) :
          /\ o.call.pc = "done"
          /\ o.sessions[SelectedSession(sid)].status \in {"completed", "error"}
          /\ o.sessions[SelectedSession(sid)].end_time # NULL

\* C23: a sealed session is immutable.  In every step of every behaviour, a
\* session record whose status is completed or error keeps its status,
\* end_time, duration_seconds and cost_minutes.
C23_SealedImmutable ==
    [][\A k \in 1..Len(time_sessions) :
         time_sessions[k].status \in {"completed", "error"} =>
           /\ time_sessions'[k].status = time_sessions[k].status
           /\ time_sessions'[k].end_time = time_sessions[k].end_time
           /\ time_sessions'[k].duration_seconds = time_sessions[k].duration_seconds
           /\ time_sessions'[k].cost_minutes = time_sessions[k].cost_minutes]_vars

\* C24: status agrees with balance.  In every reachable state, a card with
\* status used has remaining_minutes = 0 and a card with status active has
\* remaining_minutes > 0.
C24_StatusMatchesBalance ==
    \A i \in CardIds :
      /\ time_cards[i].status = "used" => time_cards[i].remaining_minutes = 0
      /\ time_cards[i].status = "active" => time_cards[i].remaining_minutes > 0

\* the deduct calls that can take a turn in the current state: fresh calls,
\* and suspended deduct and end calls
DeductingCalls ==
    {DeductCall(u, m) : u \in Users, m \in DeductMinutes}
    \cup {suspended[k] : k \in {j \in 1..Len(suspended) :
                                  suspended[j].op \in {"deduct", "end"}}}

\* C25: created cards.  In every reachable state, a pending card is as
\* create made it: remaining_minutes = total_minutes = hours * 60 +
\* bonus_minutes of a pricing tier, activated_at NULL; it is not among the
\* rows any balance is computed from, and no turn of a deduct (alone or
\* inside a session end) changes it.
C25_PendingAsCreated ==
    \A i \in CardIds :
      time_cards[i].status = "pending" =>
        /\ time_cards[i].remaining_minutes = time_cards[i].total_minutes
        /\ \E tier \in PricingTiers :
             time_cards[i].total_minutes = tier.hours * 60 + tier.bonus_minutes
        /\ time_cards[i].activated_at = NULL
        /\ \A u \in Users : i \notin BalanceRows(impl, time_cards, u, now)
        /\ \A c \in DeductingCalls :
             \A o \in Turn(impl, c, time_cards, time_sessions, now) :
               o.cards[i] = time_cards[i]

\* a pending card next to a card of the same owner that a deduct has drained
C25_Witness ==
    \E i, j \in CardIds :
      /\ time_cards[i].status = "pending"
      /\ time_cards[i].user_id = time_cards[j].user_id
      /\ time_cards[j].status = "used"
      /\ time_cards[j].remaining_minutes = 0

\* no pending card carries the code
NoPendingCard(code) ==
    \A i \in CardIds :
      time_cards[i].activation_code = code => time_cards[i].status # "pending"

\* C26: a failed activation changes nothing.  In every reachable state of
\* the SQLite service, for every code that matches no card or only a card
\* that is not pending, and every caller, an activate call reports failure
\* and leaves every card as it was.
C26_ActivateFailure ==
    impl = "sqlite" =>
      \A code \in Codes, u \in Users :
        NoPendingCard(code) =>
          \A o \in Run(impl, Outcome(ActivateCall(code, u), time_cards, time_sessions), now) :
            /\ ~o.call.ok
            /\ o.cards = time_cards

\* one code on a card that was activated and used up, another code on no card
C26_Witness ==
    /\ impl = "sqlite"
    /\ \E i \in CardIds : /\ time_cards[i].status = "used"
                          /\ time_cards[i].activated_at # NULL
    /\ \E code \in Codes : \A i \in CardIds : time_cards[i].activation_code # code

\* POST /time/session/end by the authenticated user current_user: the
\* handler passes session_id and duration_seconds of the request to
\* db_manager.end_time_session; current_user is used only after the call
\* (notification, remaining balance).  The outcomes of the request.
post_time_session_end(current_user, sid, duration_seconds) ==
    Run("sqlite", Outcome(EndCall(sid, duration_seconds), time_cards, time_sessions), now)

\* C27: an end request ends only sessions of its user.  In every reachable
\* state of the SQLite service, for every authenticated user U and every
\* end request of U, the session records and the cards of the other users
\* are left as they were.
C27_EndOwnSessionsOnly ==
    impl = "sqlite" =>
      \A U \in Users, sid \in SessionIds, d \in Durations :
        \A o \in post_time_session_end(U, sid, d) :
          /\ \A k \in 1..Len(time_sessions) :
               time_sessions[k].user_id # U => o.sessions[k] = time_sessions[k]
          /\ \A i \in CardIds :
               time_cards[i].user_id # U => o.cards[i] = time_cards[i]

FixtureUser == 1
FixtureMinutes == TierMinutes(CHOOSE t \in PricingTiers : TRUE)

db_with_time_card(t) ==
    [user_id |-> FixtureUser, activation_code |-> "TEST-CARD-123",
     total_minutes |-> FixtureMinutes, remaining_minutes |-> FixtureMinutes,
     activated_at |-> NULL, expires_at |-> NULL, created_at |-> t,
     status |-> "active", stripe_payment_intent_id |-> NULL]

InitFixture ==
    /\ impl = "sqlite"
    /\ now = 0
    /\ ticks = 0
    /\ time_cards = <<db_with_time_card(0)>>
    /\ time_sessions = <<>>
    /\ payment_history = {}
    /\ suspended = <<>>

\* the operations of the SQLite service
NextFixture ==
    \/ Tick
    \/ Resume
    \/ \E u \in Users, t \in PricingTiers : create_time_card(u, TierMinutes(t))
    \/ \E c \in Codes, u \in Users : activate_time_card(c, u)
    \/ \E u \in Users : get_user_balance(u)
    \/ \E u \in Users, m \in DeductMinutes : deduct_time(u, m)
    \/ \E u \in Users, sid \in SessionIds : start_time_session(u, sid)
    \/ \E sid \in SessionIds, d \in Durations : end_time_session(sid, d)
    \/ \E pi \in 1..MaxCards : stripe_webhook(pi)

SpecFixture == InitFixture /\ [][NextFixture]_vars

\* C29: nulls last.  In every reachable state, for every deduct call and
\* every two eligible cards of the owner, one with an expires_at and one
\* without: the call lowers remaining_minutes of the card without expires_at
\* only if it leaves the card with an expires_at at 0.
C29_NullsLast ==
    \A u \in Users, m \in DeductMinutes :
      \A o \in DeductRuns(u, m) :
        \A a, b \in ContractEligible(time_cards, u, now) :
          (/\ time_cards[a].expires_at # NULL
           /\ time_cards[b].expires_at = NULL
           /\ o.cards[b].remaining_minutes < time_cards[b].remaining_minutes)
          => o.cards[a].remaining_minutes = 0

\* C30: billed minutes are the duration rounded up.  In every reachable
\* state, every session that carries a duration and a cost has
\* cost_minutes * 60 >= duration_seconds.
C30_BilledRoundedUp ==
    \A i \in 1..Len(time_sessions) :
      (/\ time_sessions[i].duration_seconds # NULL
       /\ time_sessions[i].cost_minutes # NULL)
      => time_sessions[i].cost_minutes * SecondsPerMinute
           >= time_sessions[i].duration_seconds
====
